---------------------------- MODULE Spec2Model ----------------------------
(***************************************************************************)
(* Model of the streaming issue clusterer (src/src/cluster.py over the     *)
(* Postgres repositories of src/src/repository.py), of its batch driver    *)
(* and of the feed collection that precedes it (src/src/feed.py,           *)
(* src/src/orchestrator.py).                                               *)
(*                                                                         *)
(* Numbers.  The program computes in binary floating point.  The model     *)
(* computes in decimal fixed point: a vector component is an integer       *)
(* count of 1/SCALE, and a similarity (a product of two components) an     *)
(* integer count of 1/ONE, ONE = SCALE * SCALE, so that a dot product of   *)
(* model vectors is exact.  Division and square root round to the nearest  *)
(* unit.  A ratio that the program compares against a threshold is kept    *)
(* as an exact fraction [num, den] and compared by cross-multiplication.   *)
(***************************************************************************)
EXTENDS Integers, Sequences, FiniteSets, TLC

VARIABLES
    issue,            \* table issue: id -> [title, article_count, updated_at]
    issue_embedding,  \* table issue_embedding: set of rows [issue_id, dense]
    article,          \* table article: id -> [issue_id, dense]; dense stands
                      \* for (title, content): it is what generate() returns
    folded,           \* history: issue id -> number of article vectors folded
                      \* into the centroid stored for it
    now,              \* the wall clock, in hours
    call,             \* the most recent call: its arguments, what it read and
                      \* did, and how it ended
    thread            \* the threads in flight: name -> position and locals;
                      \* empty while the one sequential caller is the program

vars == <<issue, issue_embedding, article, folded, now, call, thread>>

-----------------------------------------------------------------------------
(* Fixed-point numbers *)

SCALE == 10^4
ONE == SCALE * SCALE

None == <<>>
Some(x) == <<x>>
IsNone(o) == o = <<>>
Val(o) == o[1]

Max(x, y) == IF x >= y THEN x ELSE y
Min(x, y) == IF x <= y THEN x ELSE y

\* n / d to the nearest integer, d > 0
RoundDiv(n, d) ==
    IF n >= 0 THEN (2 * n + d) \div (2 * d)
              ELSE -((2 * (-n) + d) \div (2 * d))

RECURSIVE SqrtIter(_, _)
SqrtIter(n, x) ==
    IF (x + n \div x) \div 2 >= x THEN x
    ELSE SqrtIter(n, (x + n \div x) \div 2)

Nearest(n, r) == IF n - r * r > r THEN r + 1 ELSE r

\* math.sqrt to the nearest unit
Sqrt(n) == IF n = 0 THEN 0 ELSE Nearest(n, SqrtIter(n, n))

\* A fraction num/den with den > 0
Rat(n, d) == [num |-> n, den |-> d]
RatGt(x, y) == x.num * y.den > y.num * x.den
RatGe(x, y) == x.num * y.den >= y.num * x.den

-----------------------------------------------------------------------------
(* Constants of cluster.py *)

\* LAMBDA_CONST = 0.1 per hour: exp(-LAMBDA_CONST * 1), in units of 1/SCALE
EXP_NEG_LAMBDA == 9048
\* ALPHA_CONST = 0.8 and BETA_CONST = 0.2, in tenths
ALPHA_CONST == 8
BETA_CONST == 2
SEPARABILITY_THRESHOLD == Rat(1, 10)
HIGH_SIMILARITY_THRESHOLD == 73 * (ONE \div 100)
\* FLOAT_EPSILON = 1.1920929e-07 = 11.920929 / ONE
FLOAT_EPSILON == Rat(11920929, 10^6)

\* x / ONE < FLOAT_EPSILON and x / ONE <= FLOAT_EPSILON, for an integer x
LtEpsilon(x) ==
    \/ x <= 0
    \/ /\ x <= FLOAT_EPSILON.num \div FLOAT_EPSILON.den
       /\ x * FLOAT_EPSILON.den < FLOAT_EPSILON.num
LeEpsilon(x) ==
    \/ x <= 0
    \/ /\ x <= FLOAT_EPSILON.num \div FLOAT_EPSILON.den
       /\ x * FLOAT_EPSILON.den <= FLOAT_EPSILON.num

-----------------------------------------------------------------------------
(* Vector utilities: cluster.py _normalize, _dot_product *)

RECURSIVE SumTo(_, _)
SumTo(f, n) == IF n = 0 THEN 0 ELSE f[n] + SumTo(f, n - 1)

\* sum(x * y for x, y in zip(a, b)): zip stops at the shorter operand
_dot_product(a, b) ==
    LET n == Min(Len(a), Len(b))
    IN  SumTo([i \in 1..n |-> a[i] * b[i]], n)

\* The values after _normalize(values), which rescales in place
Rescaled(values, magnitude) ==
    IF LeEpsilon(magnitude * SCALE)
    THEN values
    ELSE [idx \in 1..Len(values) |-> RoundDiv(values[idx] * SCALE, magnitude)]

_normalize(values) == Rescaled(values, Sqrt(_dot_product(values, values)))

-----------------------------------------------------------------------------
(* The merge decision: cluster.py ClusterService._resolve_target_issue *)

MatchCandidate(issue_id, title, score, similarity) ==
    [issue_id |-> issue_id, title |-> title, score |-> score,
     similarity |-> similarity]

\* best.similarity < HIGH_SIMILARITY_THRESHOLD
BelowThreshold_Le(similarity) == similarity <= HIGH_SIMILARITY_THRESHOLD
BelowThreshold(similarity) == similarity < HIGH_SIMILARITY_THRESHOLD

\* what the dominant-best branch returns
DominantBest_New(best) == None
DominantBest(best) == Some(best.issue_id)

\* separability > SEPARABILITY_THRESHOLD
Separable_Ge(separability) == RatGe(separability, SEPARABILITY_THRESHOLD)
Separable(separability) == RatGt(separability, SEPARABILITY_THRESHOLD)

_resolve_target_issue(title, best, neighbor_similarity) ==
    IF IsNone(best) THEN None
    ELSE IF BelowThreshold(Val(best).similarity) THEN None
    ELSE LET neighbor == IF ~IsNone(neighbor_similarity)
                         THEN Val(neighbor_similarity) ELSE 0
         IN  IF LtEpsilon(neighbor) THEN DominantBest(Val(best))
             ELSE LET a == ONE - Val(best).similarity
                      b == ONE - neighbor
                      denominator == Max(a, b)
                      separability == IF ~LtEpsilon(denominator)
                                      THEN Rat(b - a, denominator)
                                      ELSE Rat(0, 1)
                  IN  IF Separable(separability)
                      THEN Some(Val(best).issue_id)
                      ELSE None

-----------------------------------------------------------------------------
(* Storage: repository.py.  Every repository method runs in its own        *)
(* _cursor block, which commits on exit and rolls back on an exception:    *)
(* a method either commits its one statement or changes nothing.  A method *)
(* that raises is modelled by the name of the exception in "exc".          *)

NoExc == "none"

\* The vector wire format: _to_pgvector_literal writes each component with
\* "%.12g" (12 significant digits) and _from_vector_value parses it back.
PGVECTOR_DIGITS == 12

RECURSIVE Digits(_)
Digits(n) == IF n < 10 THEN 1 ELSE 1 + Digits(n \div 10)

\* v rounded to PGVECTOR_DIGITS significant decimal digits
RoundSignificant(v) ==
    LET m == IF v < 0 THEN -v ELSE v
    IN  IF Digits(m) <= PGVECTOR_DIGITS THEN v
        ELSE LET unit == 10^(Digits(m) - PGVECTOR_DIGITS)
             IN  RoundDiv(v, unit) * unit

_to_pgvector_literal(dense) ==
    IF Len(dense) = 0
    THEN [exc |-> "ValueError", text |-> <<>>]
    ELSE [exc |-> NoExc,
          text |-> [i \in 1..Len(dense) |-> RoundSignificant(dense[i])]]

_from_vector_value(value) == [i \in 1..Len(value) |-> value[i]]

\* The id a serial column gives the next inserted row
NextId(table) ==
    IF DOMAIN table = {} THEN 1
    ELSE (CHOOSE m \in DOMAIN table : \A k \in DOMAIN table : k <= m) + 1

\* PostgresIssueRepository.create: article_count 1, updated_at now
IssueRepository_create(table, title, summary, status, t) ==
    LET id == NextId(table)
        row == [title |-> title, article_count |-> 1, updated_at |-> t]
    IN  [exc |-> NoExc,
         table |-> [k \in DOMAIN table \cup {id} |->
                        IF k = id THEN row ELSE table[k]],
         id |-> id]

\* a lookup that answers a missing row with an empty issue instead of raising
IssueRepository_find_by_id_Default(table, issue_id) ==
    [exc |-> NoExc,
     row |-> IF issue_id \in DOMAIN table
             THEN [id |-> issue_id,
                   title |-> table[issue_id].title,
                   updated_at |-> table[issue_id].updated_at,
                   article_count |-> table[issue_id].article_count]
             ELSE [id |-> issue_id, title |-> 0, updated_at |-> 0,
                   article_count |-> 0]]

IssueRepository_find_by_id(table, issue_id) ==
    IF issue_id \notin DOMAIN table
    THEN [exc |-> "KeyError", row |-> <<>>]
    ELSE [exc |-> NoExc,
          row |-> [id |-> issue_id,
                   title |-> table[issue_id].title,
                   updated_at |-> table[issue_id].updated_at,
                   article_count |-> table[issue_id].article_count]]

\* SET article_count = article_count + 1, updated_at = now
IssueRepository_update_count(n) == n + 1

IssueRepository_update(table, issue_id, t) ==
    IF issue_id \notin DOMAIN table
    THEN [exc |-> "KeyError", table |-> table]
    ELSE [exc |-> NoExc,
          table |-> [table EXCEPT
                        ![issue_id].article_count =
                            IssueRepository_update_count(@),
                        ![issue_id].updated_at = t]]

\* PostgresArticleRepository.create: issue_id 0, the unassigned sentinel
ArticleRepository_create(table, dense) ==
    LET id == NextId(table)
    IN  [k \in DOMAIN table \cup {id} |->
            IF k = id THEN [issue_id |-> 0, dense |-> dense] ELSE table[k]]

RECURSIVE Ascending(_)
Ascending(ids) ==
    IF ids = {} THEN <<>>
    ELSE LET least == CHOOSE m \in ids : \A k \in ids : m <= k
         IN  <<least>> \o Ascending(ids \ {least})

\* WHERE issue_id = %s ORDER BY id ASC
ArticleRepository_list_by_issue_id(table, issue_id) ==
    Ascending({k \in DOMAIN table : table[k].issue_id = issue_id})

ArticleRepository_update_issue_id(table, article_id, issue_id) ==
    IF article_id \notin DOMAIN table
    THEN [exc |-> "KeyError", table |-> table]
    ELSE [exc |-> NoExc,
          table |-> [table EXCEPT ![article_id].issue_id = issue_id]]

\* model.IssueEmbedding declares the one field dense; a pydantic model drops
\* the keyword arguments it does not declare
IssueEmbedding_fields == {"dense"}
IssueEmbedding(kwargs) ==
    [f \in DOMAIN kwargs \cap IssueEmbedding_fields |-> kwargs[f]]

\* PostgresIssueEmbeddingRepository.create reads item.issue_id, then item.dense
IssueEmbeddingRepository_create(table, item) ==
    IF "issue_id" \notin DOMAIN item
    THEN [exc |-> "AttributeError", table |-> table]
    ELSE LET literal == _to_pgvector_literal(item.dense)
         IN  IF literal.exc # NoExc
             THEN [exc |-> literal.exc, table |-> table]
             ELSE [exc |-> NoExc,
                   table |-> table \cup
                       {[issue_id |-> item.issue_id, dense |-> literal.text]}]

similarity_limit == 20

\* ORDER BY dense <=> query ASC LIMIT similarity_limit: the issue ids of the
\* nearest rows.  Which rows are nearest, and in what order, is the vector
\* index's answer: every order of every similarity_limit rows is allowed.
IssueEmbeddingRepository_find_similar_issue_ids(table, dense) ==
    LET n == Min(Cardinality(table), similarity_limit)
        picks == {s \in [1..n -> table] :
                     \A i, j \in 1..n : i # j => s[i] # s[j]}
    IN  {[i \in 1..n |-> s[i].issue_id] : s \in picks}

IssueEmbeddingRepository_find_by_issue_id(table, issue_id) ==
    LET rows == {r \in table : r.issue_id = issue_id}
    IN  IF rows = {}
        THEN [exc |-> "KeyError", row |-> <<>>]
        ELSE LET r == CHOOSE r \in rows : TRUE
             IN  [exc |-> NoExc,
                  row |-> [issue_id |-> r.issue_id,
                           dense |-> _from_vector_value(r.dense)]]

IssueEmbeddingRepository_update(table, issue_id, dense) ==
    LET literal == _to_pgvector_literal(dense)
    IN  IF literal.exc # NoExc
        THEN [exc |-> literal.exc, table |-> table]
        ELSE IF \A r \in table : r.issue_id # issue_id
        THEN [exc |-> "KeyError", table |-> table]
        ELSE [exc |-> NoExc,
              table |-> {IF r.issue_id = issue_id
                         THEN [r EXCEPT !.dense = literal.text]
                         ELSE r : r \in table}]

-----------------------------------------------------------------------------
(* ClusterService: cluster.py.  A store st is the three tables and the     *)
(* history: [issue, issue_embedding, article, folded].  An operation       *)
(* returns the store it leaves, the exception it raised (NoExc when it     *)
(* returned) and the writes it committed, in order.                        *)

Store(i, e, a, f) ==
    [issue |-> i, issue_embedding |-> e, article |-> a, folded |-> f]

\* folded with one more vector counted for issue_id
FoldedPlus(f, issue_id) ==
    [k \in DOMAIN f \cup {issue_id} |->
        IF k = issue_id THEN (IF k \in DOMAIN f THEN f[k] + 1 ELSE 1)
        ELSE f[k]]

\* folded with a new issue that has no centroid yet
FoldedNew(f, issue_id) ==
    [k \in DOMAIN f \cup {issue_id} |-> IF k = issue_id THEN 0 ELSE f[k]]

\* math.exp(-LAMBDA_CONST * hours_diff), in units of 1/SCALE
RECURSIVE ExpDecay(_)
ExpDecay(hours_diff) ==
    IF hours_diff = 0 THEN SCALE
    ELSE RoundDiv(ExpDecay(hours_diff - 1) * EXP_NEG_LAMBDA, SCALE)

\* centroid[idx] = ((value * count) + new_vec[idx]) / (count + 1.0)
RunningMean_Unweighted(value, count, new) == RoundDiv(value + new, 2)
RunningMean(value, count, new) == RoundDiv((value * count) + new, count + 1)

\* update_cluster, lines 129-130, with the new centroid in hand
update_cluster_write(st, issue_id, t, written, touched) ==
    IF written.exc # NoExc
    THEN [st |-> st, exc |-> written.exc, steps |-> <<>>]
    ELSE IF touched.exc # NoExc
    THEN [st |-> [st EXCEPT !.issue_embedding = written.table,
                            !.folded = FoldedPlus(st.folded, issue_id)],
          exc |-> touched.exc,
          steps |-> <<"issue_embedding.update">>]
    ELSE [st |-> [st EXCEPT !.issue_embedding = written.table,
                            !.folded = FoldedPlus(st.folded, issue_id),
                            !.issue = touched.table],
          exc |-> NoExc,
          steps |-> <<"issue_embedding.update", "issue.update">>]

\* update_cluster, lines 123-130, with the two rows in hand
update_cluster_found(st, issue_id, new_vec, t, embedding_item, issue_item) ==
    IF embedding_item.exc # NoExc
    THEN [st |-> st, exc |-> embedding_item.exc, steps |-> <<>>]
    ELSE IF issue_item.exc # NoExc
    THEN [st |-> st, exc |-> issue_item.exc, steps |-> <<>>]
    ELSE IF Len(new_vec) < Len(embedding_item.row.dense)
    THEN [st |-> st, exc |-> "IndexError", steps |-> <<>>]
    ELSE update_cluster_write(st, issue_id, t,
             IssueEmbeddingRepository_update(
                 st.issue_embedding, issue_id,
                 _normalize([idx \in 1..Len(embedding_item.row.dense) |->
                     RunningMean(embedding_item.row.dense[idx],
                                 issue_item.row.article_count,
                                 new_vec[idx])])),
             IssueRepository_update(st.issue, issue_id, t))

update_cluster(st, issue_id, new_vec, t) ==
    update_cluster_found(st, issue_id, new_vec, t,
        IssueEmbeddingRepository_find_by_issue_id(st.issue_embedding, issue_id),
        IssueRepository_find_by_id(st.issue, issue_id))

\* candidates.sort(key=lambda item: item.similarity, reverse=True)
SortKey_Score(item) == item.score
SortKey(item) == item.similarity

\* item put into a list sorted by descending key, after the items whose key
\* is not smaller: the sort is stable
RECURSIVE InsertDescending(_, _)
InsertDescending(sorted, item) ==
    IF sorted = <<>> THEN <<item>>
    ELSE IF SortKey(Head(sorted)) >= SortKey(item)
         THEN <<Head(sorted)>> \o InsertDescending(Tail(sorted), item)
         ELSE <<item>> \o sorted

RECURSIVE SortDescending(_)
SortDescending(items) ==
    IF items = <<>> THEN <<>>
    ELSE InsertDescending(SortDescending(SubSeq(items, 1, Len(items) - 1)),
                          items[Len(items)])

\* find_best_cluster, lines 94-107: hours_diff, weighted_time, score
Scored(issue_id, title, similarity, elapsed) ==
    MatchCandidate(issue_id, title,
        RoundDiv((ALPHA_CONST * similarity)
                    + (BETA_CONST * ExpDecay(IF elapsed < 0 THEN 0 ELSE elapsed)
                          * SCALE), 10),
        similarity)

\* One turn of the loop of find_best_cluster, with the two rows in hand
CandidateFound(article_vec, t, issue_id, embedding_item, issue_item) ==
    IF embedding_item.exc # NoExc
    THEN [exc |-> embedding_item.exc, item |-> <<>>]
    ELSE IF issue_item.exc # NoExc
    THEN [exc |-> issue_item.exc, item |-> <<>>]
    ELSE [exc |-> NoExc,
          item |-> Scored(issue_id, issue_item.row.title,
                          _dot_product(article_vec, embedding_item.row.dense),
                          t - issue_item.row.updated_at)]

Candidate(st, article_vec, t, issue_id) ==
    CandidateFound(article_vec, t, issue_id,
        IssueEmbeddingRepository_find_by_issue_id(st.issue_embedding, issue_id),
        IssueRepository_find_by_id(st.issue, issue_id))

\* The loop's result: the first exception, or the candidates sorted
Ranked(found) ==
    IF \E i \in DOMAIN found : found[i].exc # NoExc
    THEN [exc |-> found[CHOOSE i \in DOMAIN found :
                           /\ found[i].exc # NoExc
                           /\ \A j \in 1..(i - 1) : found[j].exc = NoExc].exc,
          candidates |-> <<>>]
    ELSE [exc |-> NoExc,
          candidates |-> SortDescending([i \in DOMAIN found |-> found[i].item])]

\* issue_ids is what find_similar_issue_ids answered
find_best_cluster(st, article_vec, t, issue_ids) ==
    Ranked([i \in 1..Len(issue_ids) |->
               Candidate(st, article_vec, t, issue_ids[i])])

\* embedding_manager.generate(ctx, title, content): the collaborator is any
\* object whose answer carries embedding_feature.dense.  An article's text is
\* modelled by the vector the generator returns for it.
generate(title, content) == [embedding_feature |-> [dense |-> content]]

\* cluster(), lines 65-66, after update_cluster
cluster_merge_assign(updated, assigned) ==
    IF updated.exc # NoExc
    THEN [st |-> updated.st, exc |-> updated.exc, result |-> None,
          steps |-> updated.steps]
    ELSE IF assigned.exc # NoExc
    THEN [st |-> updated.st, exc |-> assigned.exc, result |-> None,
          steps |-> updated.steps]
    ELSE [st |-> [updated.st EXCEPT !.article = assigned.table],
          exc |-> NoExc, result |-> None,
          steps |-> updated.steps \o <<"article.update_issue_id">>]

\* the assignment written before the centroid is updated
cluster_merge_AssignFirst(st, target_issue_id, article_vector, article_id, t) ==
    [st |-> [update_cluster(st, target_issue_id, article_vector, t).st
                EXCEPT !.article =
                    ArticleRepository_update_issue_id(
                        st.article, article_id, target_issue_id).table],
     exc |-> update_cluster(st, target_issue_id, article_vector, t).exc,
     result |-> None,
     steps |-> <<"article.update_issue_id">>
                \o update_cluster(st, target_issue_id, article_vector, t).steps]

\* cluster(), lines 59-66: merge the article into target_issue_id
cluster_merge(st, target_issue_id, article_vector, article_id, t) ==
    cluster_merge_assign(
        update_cluster(st, target_issue_id, article_vector, t),
        ArticleRepository_update_issue_id(st.article, article_id, target_issue_id))

\* the assignment written right after the issue row, before the embedding
cluster_create_embed_AssignFirst(st, issue_id, embedded, assigned) ==
    IF assigned.exc # NoExc
    THEN [st |-> st, exc |-> assigned.exc, result |-> None,
          steps |-> <<"issue.create">>]
    ELSE IF embedded.exc # NoExc
    THEN [st |-> [st EXCEPT !.article = assigned.table],
          exc |-> embedded.exc, result |-> None,
          steps |-> <<"issue.create", "article.update_issue_id">>]
    ELSE [st |-> [st EXCEPT !.issue_embedding = embedded.table,
                            !.folded = FoldedPlus(st.folded, issue_id),
                            !.article = assigned.table],
          exc |-> NoExc, result |-> Some(issue_id),
          steps |-> <<"issue.create", "article.update_issue_id",
                      "issue_embedding.create">>]

\* cluster(), lines 69-77, after issue_repo.create
cluster_create_embed(st, issue_id, embedded, assigned) ==
    IF embedded.exc # NoExc
    THEN [st |-> st, exc |-> embedded.exc, result |-> None,
          steps |-> <<"issue.create">>]
    ELSE IF assigned.exc # NoExc
    THEN [st |-> [st EXCEPT !.issue_embedding = embedded.table,
                            !.folded = FoldedPlus(st.folded, issue_id)],
          exc |-> assigned.exc, result |-> None,
          steps |-> <<"issue.create", "issue_embedding.create">>]
    ELSE [st |-> [st EXCEPT !.issue_embedding = embedded.table,
                            !.folded = FoldedPlus(st.folded, issue_id),
                            !.article = assigned.table],
          exc |-> NoExc, result |-> Some(issue_id),
          steps |-> <<"issue.create", "issue_embedding.create",
                      "article.update_issue_id">>]

cluster_created(st, created, article_vector, article_id) ==
    cluster_create_embed(
        [st EXCEPT !.issue = created.table,
                   !.folded = FoldedNew(st.folded, created.id)],
        created.id,
        IssueEmbeddingRepository_create(
            st.issue_embedding,
            IssueEmbedding([issue_id |-> created.id, dense |-> article_vector])),
        ArticleRepository_update_issue_id(st.article, article_id, created.id))

\* cluster(), lines 68-77: a new issue seeded with the article
cluster_create(st, title, article_vector, article_id, t) ==
    cluster_created(st,
        IssueRepository_create(st.issue, title, "not yet summary", 1, t),
        article_vector, article_id)

\* What cluster() saw on its way: the search's answer, the ranking, the
\* two inputs of the decision and the decision
Seen(article_vector, issue_ids, candidates, best, neighbor_similarity, target) ==
    [article_vector |-> article_vector, issue_ids |-> issue_ids,
     candidates |-> candidates, best |-> best,
     neighbor_similarity |-> neighbor_similarity, target_issue_id |-> target]

WithSeen(done, seen) ==
    [st |-> done.st, exc |-> done.exc, result |-> done.result,
     steps |-> done.steps, seen |-> seen]

\* cluster(), lines 58-77, with the decision in hand
cluster_decided(st, title, article_id, t, seen) ==
    WithSeen(IF ~IsNone(seen.target_issue_id)
             THEN cluster_merge(st, Val(seen.target_issue_id),
                                seen.article_vector, article_id, t)
             ELSE cluster_create(st, title, seen.article_vector, article_id, t),
             seen)

\* cluster(), lines 55-58: best, neighbor_similarity and the decision
cluster_inputs(st, title, article_id, t, ranking, best, neighbor_similarity) ==
    cluster_decided(st, title, article_id, t,
        Seen(ranking.article_vector, ranking.issue_ids, ranking.candidates,
             best, neighbor_similarity,
             _resolve_target_issue(title, best, neighbor_similarity)))

\* cluster(), lines 54-77, with the ranking in hand
cluster_ranked(st, title, article_id, t, article_vector, issue_ids, ranked) ==
    IF ranked.exc # NoExc
    THEN [st |-> st, exc |-> ranked.exc, result |-> None, steps |-> <<>>,
          seen |-> Seen(article_vector, issue_ids, <<>>, None, None, None)]
    ELSE cluster_inputs(st, title, article_id, t,
             [article_vector |-> article_vector, issue_ids |-> issue_ids,
              candidates |-> ranked.candidates],
             IF Len(ranked.candidates) > 0
             THEN Some(ranked.candidates[1]) ELSE None,
             IF Len(ranked.candidates) > 1
             THEN Some(ranked.candidates[2].similarity) ELSE None)

\* cluster(), lines 54-77, with the normalized vector in hand
cluster_vector(st, title, article_id, t, article_vector, issue_ids) ==
    cluster_ranked(st, title, article_id, t, article_vector, issue_ids,
        find_best_cluster(st, article_vector, t, issue_ids))

\* the vector is used without the check of lines 50-51
cluster_Unchecked(st, title, content, article_id, t, issue_ids) ==
    cluster_vector(st, title, article_id, t,
        _normalize(generate(title, content).embedding_feature.dense),
        issue_ids)

\* cluster(), lines 45-77
cluster(st, title, content, article_id, t, issue_ids) ==
    IF Len(generate(title, content).embedding_feature.dense) = 0
    THEN [st |-> st, exc |-> "ValueError", result |-> None, steps |-> <<>>,
          seen |-> Seen(<<>>, <<>>, <<>>, None, None, None)]
    ELSE cluster_vector(st, title, article_id, t,
             _normalize(generate(title, content).embedding_feature.dense),
             issue_ids)

\* ArticleRow(id, title, content) for the ids listed; an article's id stands
\* for its title and its vector for its content
ArticleRows(table, ids) ==
    [k \in 1..Len(ids) |->
        [id |-> ids[k], title |-> ids[k], content |-> table[ids[k]].dense]]

\* What one turn of run()'s loop did: the store cluster() was given, the one
\* it left, and how it ended
Turn(item, st, r) ==
    [article_id |-> item.id, pre |-> st, post |-> r.st, exc |-> r.exc,
     result |-> r.result, steps |-> r.steps, seen |-> r.seen]

RECURSIVE run_loop(_, _, _, _)

\* every article is clustered over the store the batch began with, not over
\* what the articles before it persisted
run_next_Stale(st, items, t, log, r) ==
    IF r.exc # NoExc
    THEN {[st |-> r.st, exc |-> r.exc, processed |-> Len(log),
           log |-> Append(log, Turn(Head(items), st, r))]}
    ELSE run_loop(st, Tail(items), t, Append(log, Turn(Head(items), st, r)))

\* an article's error is swallowed and the loop goes on
run_next_Swallow(st, items, t, log, r) ==
    run_loop(r.st, Tail(items), t, Append(log, Turn(Head(items), st, r)))

\* run(), lines 41-42, with the answer r of cluster() in hand: an exception
\* leaves the loop and run(); otherwise the loop goes on over what cluster()
\* persisted
run_next(st, items, t, log, r) ==
    IF r.exc # NoExc
    THEN {[st |-> r.st, exc |-> r.exc, processed |-> Len(log),
           log |-> Append(log, Turn(Head(items), st, r))]}
    ELSE run_loop(r.st, Tail(items), t, Append(log, Turn(Head(items), st, r)))

\* run(), lines 40-43: every way the loop over items can go, one for each
\* answer of the similarity search to each article
run_loop(st, items, t, log) ==
    IF items = <<>>
    THEN {[st |-> st, exc |-> NoExc, processed |-> Len(log), log |-> log]}
    ELSE UNION {run_next(st, items, t, log,
                    cluster(st, Head(items).title, Head(items).content,
                            Head(items).id, t, issue_ids)) :
                  issue_ids \in IssueEmbeddingRepository_find_similar_issue_ids(
                                    st.issue_embedding, Head(items).content)}

\* run(), lines 36-43
run(st, t) ==
    run_loop(st,
             ArticleRows(st.article,
                         ArticleRepository_list_by_issue_id(st.article, 0)),
             t, <<>>)

-----------------------------------------------------------------------------
(* The decision on its own: every pair of inputs from a grid of            *)
(* similarities around the thresholds                                       *)

PCT == ONE \div 100

SimilarityGrid ==
    { -ONE, -1, 0, 1, 11, 12, 13, 50 * PCT, 70 * PCT,
      73 * PCT - 1, 73 * PCT, 73 * PCT + 1, 74 * PCT, 75 * PCT, 80 * PCT,
      82 * PCT, 90 * PCT, 91 * PCT, 95 * PCT, ONE - 12, ONE - 11, ONE - 5, ONE }

BestInputs ==
    {None} \cup {Some(MatchCandidate(7, 0, 0, s)) : s \in SimilarityGrid}
NeighborInputs == {None} \cup {Some(s) : s \in SimilarityGrid}

NoCall == [op |-> "none"]
NoThreads == <<>>

InitResolve ==
    /\ issue = <<>>
    /\ issue_embedding = {}
    /\ article = <<>>
    /\ folded = <<>>
    /\ now = 0
    /\ call = NoCall
    /\ thread = NoThreads

Resolve ==
    \E best \in BestInputs, neighbor_similarity \in NeighborInputs :
        /\ call' = [op |-> "_resolve_target_issue",
                    best |-> best,
                    neighbor_similarity |-> neighbor_similarity,
                    result |-> _resolve_target_issue(0, best, neighbor_similarity)]
        /\ UNCHANGED <<issue, issue_embedding, article, folded, now, thread>>

NextResolve == Resolve

SpecResolve == InitResolve /\ [][NextResolve]_vars

-----------------------------------------------------------------------------
(* The service over a database.  The database outlives the process: the    *)
(* service starts over the rows earlier runs left, here any of a few       *)
(* well-formed databases (each issue with its one centroid of unit length, *)
(* which counts the articles folded into it), the empty one included.      *)

MaxArticles == 2
MaxIssues == 3
MaxTime == 13

StartTime == MaxTime - 1

\* What the embedding generator may answer for an article: nothing, and
\* vectors along (0.6,0.8), (0.7071,0.7071) and (0.8,0.6)
ArticleVectors ==
    { <<>>, <<3000, 4000>>, <<2 * SCALE, 2 * SCALE>>, <<8000, 6000>> }

\* The issues a database may start with: two updated long ago, one by a
\* writer whose clock runs ahead
SeedIssues ==
    { [dense |-> <<SCALE, 0>>, article_count |-> 1, updated_at |-> 0],
      [dense |-> <<6000, 8000>>, article_count |-> 2, updated_at |-> 0],
      [dense |-> <<8000, 6000>>, article_count |-> 1, updated_at |-> MaxTime + 1] }

Seeds == UNION {[1..n -> SeedIssues] : n \in 0..2}

SeedStore(seed) ==
    Store([k \in DOMAIN seed |->
              [title |-> 0, article_count |-> seed[k].article_count,
               updated_at |-> seed[k].updated_at]],
          {[issue_id |-> k, dense |-> seed[k].dense] : k \in DOMAIN seed},
          <<>>,
          [k \in DOMAIN seed |-> seed[k].article_count])

Init ==
    \E seed \in Seeds :
        /\ issue = SeedStore(seed).issue
        /\ issue_embedding = SeedStore(seed).issue_embedding
        /\ article = SeedStore(seed).article
        /\ folded = SeedStore(seed).folded
        /\ now = StartTime
        /\ call = NoCall
        /\ thread = NoThreads

Tick ==
    /\ now < MaxTime
    /\ now' = now + 1
    /\ UNCHANGED <<issue, issue_embedding, article, folded, call, thread>>

\* PipelineOrchestrator.run saves each fetched item as an unassigned article
SaveArticle ==
    \E dense \in ArticleVectors :
        /\ Cardinality(DOMAIN article) < MaxArticles
        /\ article' = ArticleRepository_create(article, dense)
        /\ call' = [op |-> "article.create"]
        /\ UNCHANGED <<issue, issue_embedding, folded, now, thread>>

\* cluster(ctx, title, content, article_id) on an unassigned article, as run()
\* calls it; the article's id stands for its title
Cluster ==
    \E article_id \in DOMAIN article :
        \E issue_ids \in IssueEmbeddingRepository_find_similar_issue_ids(
                             issue_embedding, article[article_id].dense) :
            \E r \in {cluster(Store(issue, issue_embedding, article, folded),
                              article_id, article[article_id].dense,
                              article_id, now, issue_ids)} :
                /\ article[article_id].issue_id = 0
                /\ Cardinality(DOMAIN issue) < MaxIssues
                /\ issue' = r.st.issue
                /\ issue_embedding' = r.st.issue_embedding
                /\ article' = r.st.article
                /\ folded' = r.st.folded
                /\ call' = [op |-> "cluster", article_id |-> article_id,
                            t |-> now,
                            pre |-> Store(issue, issue_embedding, article, folded),
                            exc |-> r.exc, result |-> r.result,
                            steps |-> r.steps, seen |-> r.seen]
                /\ UNCHANGED <<now, thread>>

Next == Tick \/ SaveArticle \/ Cluster

Spec == Init /\ [][Next]_vars

-----------------------------------------------------------------------------
(* run() over a batch: a database as above in which the orchestrator has   *)
(* saved a batch of articles                                               *)

MaxBatch == 3

Batches == UNION {[1..n -> ArticleVectors] : n \in 0..MaxBatch}

InitRun ==
    \E seed \in Seeds, batch \in Batches :
        /\ issue = SeedStore(seed).issue
        /\ issue_embedding = SeedStore(seed).issue_embedding
        /\ article = [k \in DOMAIN batch |-> [issue_id |-> 0, dense |-> batch[k]]]
        /\ folded = SeedStore(seed).folded
        /\ now = StartTime
        /\ call = NoCall
        /\ thread = NoThreads

\* cluster_service.run(ctx)
Run ==
    /\ Cardinality(DOMAIN issue) < MaxIssues
    /\ \E r \in run(Store(issue, issue_embedding, article, folded), now) :
        /\ issue' = r.st.issue
        /\ issue_embedding' = r.st.issue_embedding
        /\ article' = r.st.article
        /\ folded' = r.st.folded
        /\ call' = [op |-> "run", t |-> now,
                    pre |-> Store(issue, issue_embedding, article, folded),
                    exc |-> r.exc, processed |-> r.processed, log |-> r.log]
        /\ UNCHANGED <<now, thread>>

NextRun == Tick \/ Run

SpecRun == InitRun /\ [][NextRun]_vars

-----------------------------------------------------------------------------
(* update_cluster on its own, over databases that need not be well formed: *)
(* issue 1 and issue 2, each with or without its row and with or without   *)
(* its centroid                                                            *)

MaxCount == 3

UpdateVectors ==
    { <<SCALE, 0>>, <<0, SCALE>>, <<6000, 8000>>, <<7071, 7071>>, <<SCALE>> }

InitUpdate ==
    \E issues \in SUBSET {1, 2}, centroids \in SUBSET {1, 2} :
        /\ issue = [k \in issues |->
                       [title |-> 0, article_count |-> k, updated_at |-> 0]]
        /\ issue_embedding =
               {[issue_id |-> k,
                 dense |-> IF k = 1 THEN <<SCALE, 0>> ELSE <<6000, 8000>>] :
                    k \in centroids}
        /\ article = <<>>
        /\ folded = [k \in centroids |-> k]
        /\ now = StartTime
        /\ call = NoCall
        /\ thread = NoThreads

UpdateCluster ==
    \E issue_id \in 1..MaxIssues, new_vec \in UpdateVectors :
        \E r \in {update_cluster(Store(issue, issue_embedding, article, folded),
                                 issue_id, new_vec, now)} :
            /\ issue_id \in DOMAIN issue =>
                   issue[issue_id].article_count < MaxCount
            /\ issue' = r.st.issue
            /\ issue_embedding' = r.st.issue_embedding
            /\ folded' = r.st.folded
            /\ call' = [op |-> "update_cluster", issue_id |-> issue_id,
                        new_vec |-> new_vec, t |-> now,
                        pre |-> Store(issue, issue_embedding, article, folded),
                        exc |-> r.exc, steps |-> r.steps]
            /\ UNCHANGED <<article, now, thread>>

NextUpdate == Tick \/ UpdateCluster

SpecUpdate == InitUpdate /\ [][NextUpdate]_vars

-----------------------------------------------------------------------------
(* update_cluster called by two threads over the same database with        *)
(* nothing serializing them.  Every repository method runs its one         *)
(* statement and commits (_cursor), so a thread's step is one repository   *)
(* call; what it read stays in its locals between steps.                   *)

Callers == {1, 2}

RaceVectors == { <<0, SCALE>>, <<6000, 8000>> }

\* A caller before its call, and a caller's locals during it
Idle ==
    [pc |-> "idle", issue_id |-> 0, new_vec |-> <<>>,
     embedding_item |-> None, issue_item |-> None, exc |-> NoExc,
     alone |-> TRUE]

Running(p) == thread[p].pc \notin {"idle", "done"}

\* update_cluster, lines 123-127: the centroid to store
update_cluster_centroid_Unnormalized(dense, count, new_vec) ==
    [idx \in 1..Len(dense) |-> RunningMean(dense[idx], count, new_vec[idx])]
update_cluster_centroid(dense, count, new_vec) ==
    _normalize([idx \in 1..Len(dense) |->
                   RunningMean(dense[idx], count, new_vec[idx])])

InitRace ==
    /\ issue = [k \in 1..2 |->
                   [title |-> 0, article_count |-> k, updated_at |-> 0]]
    /\ issue_embedding =
           {[issue_id |-> k,
             dense |-> IF k = 1 THEN <<SCALE, 0>> ELSE <<8000, 6000>>] :
                k \in 1..2}
    /\ article = <<>>
    /\ folded = [k \in 1..2 |-> k]
    /\ now = StartTime
    /\ call = NoCall
    /\ thread = [p \in Callers |-> Idle]

\* the call is entered and line 120 runs: issue_embedding_repo.find_by_issue_id
RaceFindEmbedding(p) ==
    \E issue_id \in 1..MaxIssues, new_vec \in RaceVectors :
        \E found \in {IssueEmbeddingRepository_find_by_issue_id(
                          issue_embedding, issue_id)} :
            /\ thread[p].pc = "idle"
            /\ thread' = [thread EXCEPT ![p] =
                   [pc |-> IF found.exc # NoExc THEN "done" ELSE "find_by_id",
                    issue_id |-> issue_id, new_vec |-> new_vec,
                    embedding_item |-> IF found.exc # NoExc THEN None
                                       ELSE Some(found.row),
                    issue_item |-> None, exc |-> found.exc,
                    alone |-> \A q \in Callers \ {p} : ~Running(q)]]
            /\ call' = IF call.op = "none"
                       THEN [op |-> "race",
                             pre |-> Store(issue, issue_embedding, article, folded)]
                       ELSE call
            /\ UNCHANGED <<issue, issue_embedding, article, folded, now>>

\* line 121: issue_repo.find_by_id
RaceFindIssue(p) ==
    /\ thread[p].pc = "find_by_id"
    /\ \E found \in {IssueRepository_find_by_id(issue, thread[p].issue_id)} :
        /\ thread' = [thread EXCEPT ![p] =
               [@ EXCEPT !.pc = IF found.exc # NoExc THEN "done"
                                ELSE "issue_embedding.update",
                         !.issue_item = IF found.exc # NoExc THEN None
                                        ELSE Some(found.row),
                         !.exc = found.exc]]
        /\ UNCHANGED <<issue, issue_embedding, article, folded, now, call>>

\* lines 123-129: the centroid from the rows read, and issue_embedding_repo.update
RaceUpdateEmbedding(p) ==
    /\ thread[p].pc = "issue_embedding.update"
    /\ \E written \in {IF Len(thread[p].new_vec)
                              < Len(Val(thread[p].embedding_item).dense)
                       THEN [exc |-> "IndexError", table |-> issue_embedding]
                       ELSE IssueEmbeddingRepository_update(
                                issue_embedding, thread[p].issue_id,
                                update_cluster_centroid(
                                    Val(thread[p].embedding_item).dense,
                                    Val(thread[p].issue_item).article_count,
                                    thread[p].new_vec))} :
        /\ issue_embedding' = written.table
        /\ folded' = IF written.exc # NoExc THEN folded
                     ELSE FoldedPlus(folded, thread[p].issue_id)
        /\ thread' = [thread EXCEPT ![p] =
               [@ EXCEPT !.pc = IF written.exc # NoExc THEN "done"
                                ELSE "issue.update",
                         !.exc = written.exc]]
        /\ UNCHANGED <<issue, article, now, call>>

\* line 130: issue_repo.update, and the call returns
RaceUpdateIssue(p) ==
    /\ thread[p].pc = "issue.update"
    /\ \E touched \in {IssueRepository_update(issue, thread[p].issue_id, now)} :
        /\ issue' = touched.table
        /\ thread' = [thread EXCEPT ![p] =
               [@ EXCEPT !.pc = "done", !.exc = touched.exc]]
        /\ UNCHANGED <<issue_embedding, article, folded, now, call>>

NextRace ==
    \E p \in Callers :
        \/ RaceFindEmbedding(p)
        \/ RaceFindIssue(p)
        \/ RaceUpdateEmbedding(p)
        \/ RaceUpdateIssue(p)

SpecRace == InitRace /\ [][NextRace]_vars

-----------------------------------------------------------------------------
(* PipelineOrchestrator.run: get_feeds fetches the sources on a thread     *)
(* pool, then the main thread saves the items and runs the clustering.     *)
(* thread.main is the main thread, thread.future the futures of            *)
(* executor.submit(fetcher.fetch, ctx, source), one per source.            *)

MaxSources == 3

\* What fetch(source) returns when it does: CrawlItems naming their source;
\* an item's vector stands for its text
FeedItems(source) ==
    IF source = 1 THEN <<[source |-> 1, content |-> <<3000, 4000>>]>>
    ELSE IF source = 2
    THEN <<[source |-> 2, content |-> <<8000, 6000>>],
           [source |-> 2, content |-> <<SCALE, 0>>]>>
    ELSE <<[source |-> source, content |-> <<2 * SCALE, 2 * SCALE>>]>>

\* workers = min(max_workers, len(sources)) if max_workers > 0 else len(sources)
PoolSize(max_workers, sources) ==
    IF max_workers > 0 THEN Min(max_workers, sources) ELSE sources

Pending == [state |-> "pending", exc |-> NoExc, items |-> <<>>]

MainThread(sources, max_workers) ==
    [pc |-> "get_feeds", sources |-> sources, max_workers |-> max_workers,
     workers |-> 0, results |-> <<>>, consumed |-> <<>>, logged |-> {}]

InitFeeds ==
    \E sources \in 0..MaxSources, max_workers \in 0..2 :
        /\ issue = SeedStore(<<[dense |-> <<6000, 8000>>, article_count |-> 2,
                                updated_at |-> 0]>>).issue
        /\ issue_embedding =
               SeedStore(<<[dense |-> <<6000, 8000>>, article_count |-> 2,
                            updated_at |-> 0]>>).issue_embedding
        /\ article = <<>>
        /\ folded = <<2>>
        /\ now = StartTime
        /\ call = NoCall
        /\ thread = [main |-> MainThread(sources, max_workers),
                     future |-> <<>>]

Consumed == {thread.main.consumed[k] : k \in DOMAIN thread.main.consumed}
RunningFutures == {s \in DOMAIN thread.future : thread.future[s].state = "running"}

\* as_completed(future_map): the futures it can yield next, and its end
as_completed_next ==
    {s \in DOMAIN thread.future :
        thread.future[s].state = "finished" /\ s \notin Consumed}
as_completed_exhausted_First == Consumed # {} \/ DOMAIN thread.future = {}
as_completed_exhausted == Consumed = DOMAIN thread.future

\* leaving the with block: executor.shutdown(wait=True) returns when every
\* submitted call has finished
shutdown_returns ==
    \A s \in DOMAIN thread.future : thread.future[s].state = "finished"

\* get_feeds, lines 90-98: no source returns []; otherwise every source is
\* submitted to a pool of min(max_workers, len(sources)) threads
GetFeedsSubmit ==
    /\ thread.main.pc = "get_feeds"
    /\ thread' =
           IF thread.main.sources = 0
           THEN [thread EXCEPT !.main.pc = "save"]
           ELSE [main |-> [thread.main EXCEPT
                              !.pc = "as_completed",
                              !.workers = PoolSize(thread.main.max_workers,
                                                   thread.main.sources)],
                 future |-> [s \in 1..thread.main.sources |-> Pending]]
    /\ UNCHANGED <<issue, issue_embedding, article, folded, now, call>>

\* a pool thread takes the oldest queued call
WorkerStart(s) ==
    /\ s \in DOMAIN thread.future
    /\ thread.future[s].state = "pending"
    /\ \A q \in 1..(s - 1) : thread.future[q].state # "pending"
    /\ Cardinality(RunningFutures) < thread.main.workers
    /\ thread' = [thread EXCEPT !.future[s].state = "running"]
    /\ UNCHANGED <<issue, issue_embedding, article, folded, now, call>>

\* fetcher.fetch(ctx, source) returns its items or raises
WorkerFinish(s) ==
    /\ s \in DOMAIN thread.future
    /\ thread.future[s].state = "running"
    /\ \E exc \in {NoExc, "URLError"} :
           thread' = [thread EXCEPT !.future[s] =
               [state |-> "finished", exc |-> exc,
                items |-> IF exc = NoExc THEN FeedItems(s) ELSE <<>>]]
    /\ UNCHANGED <<issue, issue_embedding, article, folded, now, call>>

\* get_feeds, lines 99-104: one turn of the loop over as_completed
GetFeedsNext(s) ==
    /\ thread.main.pc = "as_completed"
    /\ s \in as_completed_next
    /\ thread' = [thread EXCEPT
           !.main.consumed = Append(@, s),
           !.main.results = IF thread.future[s].exc = NoExc
                            THEN @ \o thread.future[s].items ELSE @,
           !.main.logged = IF thread.future[s].exc = NoExc
                           THEN @ ELSE @ \cup {s}]
    /\ UNCHANGED <<issue, issue_embedding, article, folded, now, call>>

\* get_feeds, lines 97-105: the loop is over, the with block is left and
\* results is returned to PipelineOrchestrator.run
GetFeedsReturn ==
    /\ thread.main.pc = "as_completed"
    /\ as_completed_exhausted
    /\ shutdown_returns
    /\ thread' = [thread EXCEPT !.main.pc = "save"]
    /\ UNCHANGED <<issue, issue_embedding, article, folded, now, call>>

RECURSIVE SaveItems(_, _)
SaveItems(table, items) ==
    IF items = <<>> THEN table
    ELSE SaveItems(ArticleRepository_create(table, Head(items).content),
                   Tail(items))

\* PipelineOrchestrator.run, lines 66-77: every item is saved as an article
OrchestratorSave ==
    /\ thread.main.pc = "save"
    /\ article' = SaveItems(article, thread.main.results)
    /\ thread' = [thread EXCEPT !.main.pc = "cluster"]
    /\ call' = [op |-> "article.create"]
    /\ UNCHANGED <<issue, issue_embedding, folded, now>>

\* PipelineOrchestrator.run, lines 79-82: cluster_service.run(self.conn)
OrchestratorCluster ==
    /\ thread.main.pc = "cluster"
    /\ \E r \in run(Store(issue, issue_embedding, article, folded), now) :
        /\ issue' = r.st.issue
        /\ issue_embedding' = r.st.issue_embedding
        /\ article' = r.st.article
        /\ folded' = r.st.folded
        /\ call' = [op |-> "run", t |-> now,
                    pre |-> Store(issue, issue_embedding, article, folded),
                    exc |-> r.exc, processed |-> r.processed, log |-> r.log]
        /\ thread' = [thread EXCEPT !.main.pc =
                          IF r.exc = NoExc THEN "done" ELSE "raised"]
        /\ UNCHANGED now

NextFeeds ==
    \/ GetFeedsSubmit
    \/ \E s \in 1..MaxSources : WorkerStart(s)
    \/ \E s \in 1..MaxSources : WorkerFinish(s)
    \/ \E s \in 1..MaxSources : GetFeedsNext(s)
    \/ GetFeedsReturn
    \/ OrchestratorSave
    \/ OrchestratorCluster

SpecFeeds == InitFeeds /\ [][NextFeeds]_vars

-----------------------------------------------------------------------------
(* Claims about the decision, under SpecResolve *)

ResolveCalled == call.op = "_resolve_target_issue"
BestSimilarity == Val(call.best).similarity
NeighborGiven == Val(call.neighbor_similarity)
AboveGate == ~IsNone(call.best) /\ BestSimilarity >= 73 * PCT
\* the runner-up is present and at least epsilon (11.920929 / ONE)
NeighborCompetes == ~IsNone(call.neighbor_similarity) /\ NeighborGiven >= 12
DistanceBest == ONE - BestSimilarity
DistanceNeighbor == ONE - NeighborGiven
DistanceMax == Max(DistanceBest, DistanceNeighbor)

\* C1: with best.similarity >= 0.73 and a runner-up similarity >= epsilon, the
\* decision is MERGE into best exactly when max(a, b) >= epsilon and
\* (b - a) / max(a, b) > 0.1, for a = 1 - best.similarity and b = 1 - neighbor;
\* in every other case (separability exactly 0.1 and max(a, b) < epsilon
\* included) it is NEW.
C1_SeparabilityDecides ==
    (ResolveCalled /\ AboveGate /\ NeighborCompetes) =>
        IF DistanceMax >= 12 /\ 10 * (DistanceNeighbor - DistanceBest) > DistanceMax
        THEN call.result = Some(Val(call.best).issue_id)
        ELSE call.result = None

\* best 0.82 and runner-up 0.80: a = 0.18, b = 0.20, so the separability is
\* exactly 0.1 in exact arithmetic and the decision is NEW.  (In binary
\* floating point the quotient of decimal inputs is rounded and lands a few
\* ulps to one side of 0.1; this pair lands below it, so the code agrees.)
C1_Witness ==
    /\ ResolveCalled /\ AboveGate /\ NeighborCompetes
    /\ BestSimilarity = 82 * PCT /\ NeighborGiven = 80 * PCT
    /\ 10 * (DistanceNeighbor - DistanceBest) = DistanceMax
    /\ call.result = None

\* C2: the decision is NEW whenever there is no best candidate or
\* best.similarity < 0.73, whatever the runner-up (present or absent); a best
\* similarity of exactly 0.73 passes the gate (with no competing runner-up it
\* is merged).
C2_BelowThresholdIsNew ==
    ResolveCalled =>
        /\ (IsNone(call.best) \/ BestSimilarity < 73 * PCT) => call.result = None
        /\ (AboveGate /\ BestSimilarity = 73 * PCT /\ ~NeighborCompetes)
               => call.result = Some(Val(call.best).issue_id)

\* best just under 0.73 with a far runner-up (separability would be high): NEW
C2_Witness ==
    /\ ResolveCalled /\ ~IsNone(call.best)
    /\ BestSimilarity = 73 * PCT - 1
    /\ ~IsNone(call.neighbor_similarity) /\ NeighborGiven = 12
    /\ call.result = None

\* C3: with best.similarity >= 0.73 and the runner-up absent (taken as 0) or
\* below epsilon (negative values included), the decision is MERGE into best.
C3_DominantBestMerges ==
    (ResolveCalled /\ AboveGate /\ ~NeighborCompetes) =>
        call.result = Some(Val(call.best).issue_id)

\* best 0.95 and a negative runner-up similarity: MERGE
C3_Witness ==
    /\ ResolveCalled /\ AboveGate /\ BestSimilarity = 95 * PCT
    /\ ~IsNone(call.neighbor_similarity) /\ NeighborGiven = -ONE
    /\ call.result = Some(Val(call.best).issue_id)

-----------------------------------------------------------------------------
(* Claims about cluster(), under Spec *)

ClusterCalled == call.op = "cluster"
RowsOf(table, issue_id) == {r \in table : r.issue_id = issue_id}
ArticleDense == call.pre.article[call.article_id].dense

\* C4: cold start: with no issue in storage, cluster() on an article with a
\* non-empty embedding ends with exactly one issue, of article_count 1, one
\* embedding row for it holding the article's normalized vector, and the
\* article assigned to it.
C4_ColdStartCreatesIssue ==
    (ClusterCalled /\ DOMAIN call.pre.issue = {} /\ ArticleDense # <<>>) =>
        /\ Cardinality(DOMAIN issue) = 1
        /\ \A i \in DOMAIN issue :
               /\ issue[i].article_count = 1
               /\ RowsOf(issue_embedding, i) =
                      {[issue_id |-> i, dense |-> _normalize(ArticleDense)]}
               /\ article[call.article_id].issue_id = i

MergeSteps == <<"issue_embedding.update", "issue.update", "article.update_issue_id">>
CreateSteps == <<"issue.create", "issue_embedding.create", "article.update_issue_id">>

\* the call updated the existing issue i and created nothing
MergedInto(i) ==
    /\ i \in DOMAIN call.pre.issue
    /\ DOMAIN issue = DOMAIN call.pre.issue
    /\ issue[i].article_count = call.pre.issue[i].article_count + 1
    /\ \A k \in DOMAIN issue \ {i} : issue[k] = call.pre.issue[k]
    /\ {r.issue_id : r \in issue_embedding} =
           {r.issue_id : r \in call.pre.issue_embedding}

\* the call created issue i with its embedding and updated nothing
CreatedIssue(i) ==
    /\ i \notin DOMAIN call.pre.issue
    /\ DOMAIN issue = DOMAIN call.pre.issue \cup {i}
    /\ \A k \in DOMAIN call.pre.issue : issue[k] = call.pre.issue[k]
    /\ issue_embedding \ call.pre.issue_embedding = RowsOf(issue_embedding, i)
    /\ Cardinality(RowsOf(issue_embedding, i)) = 1
    /\ call.pre.issue_embedding \subseteq issue_embedding

\* C5: a cluster() call that returns has done exactly one of: update_cluster
\* on an existing issue, or the creation of a new issue with its embedding;
\* and only then has it set the article's issue id, to that issue.
C5_ExactlyOneThenAssign ==
    (ClusterCalled /\ call.exc = NoExc) =>
        \/ /\ ~IsNone(call.seen.target_issue_id)
           /\ call.steps = MergeSteps
           /\ MergedInto(Val(call.seen.target_issue_id))
           /\ article[call.article_id].issue_id = Val(call.seen.target_issue_id)
        \/ /\ IsNone(call.seen.target_issue_id)
           /\ call.steps = CreateSteps
           /\ ~IsNone(call.result)
           /\ CreatedIssue(Val(call.result))
           /\ article[call.article_id].issue_id = Val(call.result)

\* a call that returned after merging into an issue that had a competitor
C5_Witness ==
    /\ ClusterCalled /\ call.exc = NoExc
    /\ Len(call.seen.candidates) = 2
    /\ MergedInto(Val(call.seen.target_issue_id))
    /\ call.pre.article[call.article_id].issue_id = 0
    /\ article[call.article_id].issue_id = Val(call.seen.target_issue_id)

\* C6: in every reachable state each issue's article_count is the number of
\* article vectors folded into its stored centroid.
C6_CountIsFolded ==
    \A i \in DOMAIN issue :
        i \in DOMAIN folded /\ issue[i].article_count = folded[i]

\* C7: in every reachable state every issue row has exactly one embedding
\* row and every embedding row belongs to an issue row.
C7_IssueAndEmbeddingTogether ==
    /\ \A i \in DOMAIN issue : Cardinality(RowsOf(issue_embedding, i)) = 1
    /\ \A r \in issue_embedding : r.issue_id \in DOMAIN issue

Ranked_ == ClusterCalled /\ call.exc # "ValueError" /\ call.exc # "KeyError"
Similarities == {call.seen.candidates[j].similarity :
                    j \in 1..Len(call.seen.candidates)}

\* C10: the ranking holds one candidate per issue id the search returned, in
\* order of non-increasing similarity whatever the blended scores; so the
\* best candidate has the greatest similarity, and the neighbor similarity
\* handed to the decision is the next one and is not above it.
C10_RankedBySimilarity ==
    Ranked_ =>
        /\ Len(call.seen.candidates) = Len(call.seen.issue_ids)
        /\ \A k \in 1..Len(call.seen.issue_ids) :
               Cardinality({j \in 1..Len(call.seen.candidates) :
                   call.seen.candidates[j].issue_id = call.seen.issue_ids[k]}) = 1
        /\ \A j \in 1..Len(call.seen.candidates) :
               call.seen.candidates[j].similarity =
                   _dot_product(call.seen.article_vector,
                       (CHOOSE r \in call.pre.issue_embedding :
                           r.issue_id = call.seen.candidates[j].issue_id).dense)
        /\ \A j \in 1..(Len(call.seen.candidates) - 1) :
               call.seen.candidates[j].similarity
                   >= call.seen.candidates[j + 1].similarity
        /\ IsNone(call.seen.best) <=> Len(call.seen.candidates) = 0
        /\ ~IsNone(call.seen.best) =>
               \A s \in Similarities : Val(call.seen.best).similarity >= s
        /\ IsNone(call.seen.neighbor_similarity) <=> Len(call.seen.candidates) < 2
        /\ ~IsNone(call.seen.neighbor_similarity) =>
               /\ Val(call.seen.neighbor_similarity)
                      <= Val(call.seen.best).similarity
               /\ \A j \in 2..Len(call.seen.candidates) :
                      Val(call.seen.neighbor_similarity)
                          >= call.seen.candidates[j].similarity

\* two candidates of which the more similar has the lower blended score
C10_Witness ==
    /\ Ranked_
    /\ Len(call.seen.candidates) = 2
    /\ call.seen.candidates[1].similarity > call.seen.candidates[2].similarity
    /\ call.seen.candidates[1].score < call.seen.candidates[2].score

-----------------------------------------------------------------------------
(* Claims about update_cluster, under SpecUpdate *)

UpdateCalled == call.op = "update_cluster"
HadIssue == call.issue_id \in DOMAIN call.pre.issue
HadCentroid == RowsOf(call.pre.issue_embedding, call.issue_id) # {}
CentroidBefore ==
    (CHOOSE r \in call.pre.issue_embedding : r.issue_id = call.issue_id).dense
CountBefore == call.pre.issue[call.issue_id].article_count

\* C8: a successful update_cluster(issue, v) on centroid c and article_count
\* n leaves the issue's one embedding row holding normalize((c*n + v)/(n+1)),
\* component by component, its article_count n+1 and its updated_at the
\* current time, and every other issue and centroid as they were.
C8_UpdateClusterArithmetic ==
    (UpdateCalled /\ call.exc = NoExc) =>
        /\ RowsOf(issue_embedding, call.issue_id) =
               {[issue_id |-> call.issue_id,
                 dense |-> _normalize(
                     [idx \in 1..Len(CentroidBefore) |->
                         RoundDiv(CentroidBefore[idx] * CountBefore
                                      + call.new_vec[idx],
                                  CountBefore + 1)])]}
        /\ issue[call.issue_id].article_count = CountBefore + 1
        /\ issue[call.issue_id].updated_at = call.t
        /\ DOMAIN issue = DOMAIN call.pre.issue
        /\ \A k \in DOMAIN issue \ {call.issue_id} : issue[k] = call.pre.issue[k]
        /\ issue_embedding \ RowsOf(issue_embedding, call.issue_id) =
               call.pre.issue_embedding
                   \ RowsOf(call.pre.issue_embedding, call.issue_id)

\* article_count 2, centroid (0.6,0.8), merging (1,0): another issue is there
C8_Witness ==
    /\ UpdateCalled /\ call.exc = NoExc
    /\ CountBefore = 2 /\ CentroidBefore = <<6000, 8000>>
    /\ call.new_vec = <<SCALE, 0>>
    /\ call.t > 0
    /\ issue[call.issue_id].article_count = 3
    /\ DOMAIN issue = {1, 2}

\* C9: update_cluster on an issue id without its issue row or without its
\* embedding row raises the not-found error and leaves every table as it was.
C9_NotFoundChangesNothing ==
    (UpdateCalled /\ (~HadIssue \/ ~HadCentroid)) =>
        /\ call.exc = "KeyError"
        /\ call.steps = <<>>
        /\ issue = call.pre.issue
        /\ issue_embedding = call.pre.issue_embedding

\* the centroid is there and the issue row is not
C9_Witness ==
    /\ UpdateCalled /\ ~HadIssue /\ HadCentroid
    /\ call.exc = "KeyError"
    /\ issue_embedding = call.pre.issue_embedding

-----------------------------------------------------------------------------
(* Claims about concurrent update_cluster calls, under SpecRace *)

RaceCalled == call.op = "race"
\* both callers have returned from update_cluster on the same issue
BothMerged(i) ==
    \A p \in Callers :
        thread[p].pc = "done" /\ thread[p].exc = NoExc /\ thread[p].issue_id = i
\* neither call began while the other was in flight
OneAfterTheOther == \A p \in Callers : thread[p].alone
CentroidOf(table, i) == (CHOOSE r \in table : r.issue_id = i).dense
\* normalize((c * n + v) / (n + 1))
FoldInto(c, n, v) ==
    _normalize([idx \in 1..Len(c) |-> RoundDiv(c[idx] * n + v[idx], n + 1)])
\* the centroid after p's vector and then q's were merged into issue i
FoldedInOrder(i, p, q) ==
    FoldInto(FoldInto(CentroidOf(call.pre.issue_embedding, i),
                      call.pre.issue[i].article_count, thread[p].new_vec),
             call.pre.issue[i].article_count + 1, thread[q].new_vec)
\* the centroid that holds p's vector alone
FoldedOnly(i, p) ==
    FoldInto(CentroidOf(call.pre.issue_embedding, i),
             call.pre.issue[i].article_count, thread[p].new_vec)
\* article_count went up by 2 and the centroid holds one of the two vectors
LostUpdate(i) ==
    /\ issue[i].article_count = call.pre.issue[i].article_count + 2
    /\ \E p \in Callers : CentroidOf(issue_embedding, i) = FoldedOnly(i, p)
    /\ \A p, q \in Callers :
           p # q => CentroidOf(issue_embedding, i) # FoldedInOrder(i, p, q)

\* C11: when two update_cluster calls on the same issue run one after the
\* other, article_count ends 2 higher and the centroid is the second vector
\* folded into the first's result: no update is lost.  (Run concurrently, an
\* interleaving loses one: C11_Witness.)
C11_SerialKeepsBoth ==
    \A i \in DOMAIN issue :
        (RaceCalled /\ BothMerged(i) /\ OneAfterTheOther) =>
            /\ issue[i].article_count = call.pre.issue[i].article_count + 2
            /\ \E p, q \in Callers :
                   /\ p # q
                   /\ CentroidOf(issue_embedding, i) = FoldedInOrder(i, p, q)
            /\ ~LostUpdate(i)

\* two overlapping calls with different vectors have both returned:
\* article_count is 2 higher and the centroid holds only one of the vectors
C11_Witness ==
    \E i \in DOMAIN issue :
        /\ RaceCalled /\ BothMerged(i) /\ ~OneAfterTheOther
        /\ thread[1].new_vec # thread[2].new_vec
        /\ LostUpdate(i)

-----------------------------------------------------------------------------
(* Claims about run(), under SpecRun *)

RunCalled == call.op = "run"
\* the unassigned articles when run() began, as list_by_issue_id lists them
Listing == ArticleRepository_list_by_issue_id(call.pre.article, 0)
Turns == DOMAIN call.log
Tables(st) == <<st.issue, st.issue_embedding, st.article>>
\* the turn got as far as ranking its candidates
RankedTurn(k) == call.log[k].exc \notin {"ValueError", "KeyError"}
CandidateIds(k) ==
    {call.log[k].seen.candidates[j].issue_id :
        j \in 1..Len(call.log[k].seen.candidates)}
\* the store the articles before turn k left
LeftBefore(k) == IF k = 1 THEN call.pre ELSE call.log[k - 1].post

\* C12: run() takes the unassigned articles in ascending id order, one turn
\* each; every turn is given the store exactly as the turn before left it
\* (the first, as run() found it), its candidates are the issues that have a
\* centroid in that store, each with the similarity to the centroid stored
\* there; and what the last turn left is what run() leaves.
C12_EachTurnReadsPersisted ==
    RunCalled =>
        /\ Len(call.log) <= Len(Listing)
        /\ \A k \in Turns :
               /\ call.log[k].article_id = Listing[k]
               /\ k > 1 => Listing[k - 1] < Listing[k]
               /\ Tables(call.log[k].pre) = Tables(LeftBefore(k))
               /\ RankedTurn(k) =>
                      /\ CandidateIds(k) =
                             {r.issue_id : r \in LeftBefore(k).issue_embedding}
                      /\ \A j \in 1..Len(call.log[k].seen.candidates) :
                             call.log[k].seen.candidates[j].similarity =
                                 _dot_product(
                                     call.log[k].seen.article_vector,
                                     CentroidOf(LeftBefore(k).issue_embedding,
                                         call.log[k].seen.candidates[j].issue_id))
        /\ <<issue, issue_embedding, article>> =
               IF call.log = <<>> THEN Tables(call.pre)
               ELSE Tables(call.log[Len(call.log)].post)

\* the first article of the batch was merged into an issue and moved its
\* centroid; the second was ranked against the moved centroid and merged too
C12_Witness ==
    /\ RunCalled /\ Len(call.log) >= 2
    /\ call.log[1].exc = NoExc /\ call.log[2].exc = NoExc
    /\ call.log[1].seen.target_issue_id = call.log[2].seen.target_issue_id
    /\ \E i \in DOMAIN call.pre.issue :
           /\ call.log[2].seen.target_issue_id = Some(i)
           /\ CentroidOf(call.log[1].post.issue_embedding, i)
                  # CentroidOf(call.pre.issue_embedding, i)
           /\ Val(call.log[2].seen.best).similarity =
                  _dot_product(call.log[2].seen.article_vector,
                               CentroidOf(call.log[1].post.issue_embedding, i))
           /\ Val(call.log[2].seen.best).similarity #
                  _dot_product(call.log[2].seen.article_vector,
                               CentroidOf(call.pre.issue_embedding, i))

\* the listed articles run() never got to
NotReached == {Listing[k] : k \in (Len(call.log) + 1)..Len(Listing)}

\* C13: only the last turn of a run() can have raised, and its error is
\* run()'s; then every listed article after it is as it was, with issue id 0,
\* and every article before it keeps the issue its turn assigned.  With no
\* error every listed article had its turn.
C13_StopsOnFirstError ==
    RunCalled =>
        /\ \A k \in Turns : k < Len(call.log) => call.log[k].exc = NoExc
        /\ call.exc = IF call.log = <<>> THEN NoExc
                      ELSE call.log[Len(call.log)].exc
        /\ call.processed = Cardinality({k \in Turns : call.log[k].exc = NoExc})
        /\ call.exc = NoExc => Len(call.log) = Len(Listing)
        /\ call.exc # NoExc =>
               /\ \A a \in NotReached :
                      /\ article[a] = call.pre.article[a]
                      /\ article[a].issue_id = 0
               /\ \A k \in Turns : k < Len(call.log) =>
                      /\ article[call.log[k].article_id].issue_id # 0
                      /\ article[call.log[k].article_id].issue_id =
                             call.log[k].post.article[call.log[k].article_id].issue_id

\* three articles listed: the first was merged, the second raised, the third
\* was never reached
C13_Witness ==
    /\ RunCalled /\ call.exc # NoExc
    /\ Len(Listing) = 3 /\ Len(call.log) = 2
    /\ article[Listing[1]].issue_id # 0
    /\ article[Listing[2]].issue_id = 0
    /\ article[Listing[3]].issue_id = 0

\* the turns whose article the generator answered with an empty vector
EmptyVectorTurns ==
    {k \in Turns : call.pre.article[call.log[k].article_id].dense = <<>>}

\* C14 as stated: an empty vector is rejected with a validation error, its
\* turn changes nothing, and the batch goes on: every listed article gets its
\* turn.
C14_EmptyVectorDoesNotAbort ==
    (RunCalled /\ EmptyVectorTurns # {}) =>
        /\ \A k \in EmptyVectorTurns :
               /\ call.log[k].exc = "ValueError"
               /\ Tables(call.log[k].post) = Tables(call.log[k].pre)
        /\ Len(call.log) = Len(Listing)

\* C14 amended: an empty vector is rejected with ValueError before any use:
\* nothing is searched, its turn writes nothing and leaves every table as it
\* was; the error is run()'s, the turn is the batch's last, and the listed
\* articles after it are not clustered in this run() and keep issue id 0.
C14_EmptyVectorStopsBatch ==
    RunCalled =>
        \A k \in EmptyVectorTurns :
            /\ call.log[k].exc = "ValueError"
            /\ call.log[k].steps = <<>>
            /\ call.log[k].seen.issue_ids = <<>>
            /\ call.log[k].seen.candidates = <<>>
            /\ Tables(call.log[k].post) = Tables(call.log[k].pre)
            /\ article[call.log[k].article_id].issue_id = 0
            /\ k = Len(call.log)
            /\ call.exc = "ValueError"
            /\ <<issue, issue_embedding, article>> = Tables(call.log[k].pre)
            /\ \A j \in (k + 1)..Len(Listing) :
                   article[Listing[j]] = call.pre.article[Listing[j]]

\* the second of three listed articles has an empty vector: the first was
\* merged, the third has a vector and is left unassigned
C14_Witness ==
    /\ RunCalled /\ Len(Listing) = 3
    /\ EmptyVectorTurns = {2}
    /\ call.exc = "ValueError"
    /\ article[Listing[1]].issue_id # 0
    /\ article[Listing[3]].dense # <<>>
    /\ article[Listing[3]].issue_id = 0

-----------------------------------------------------------------------------
(* Claims about get_feeds, under SpecFeeds *)

\* get_feeds has returned to PipelineOrchestrator.run
FeedsReturned == thread.main.pc \in {"save", "cluster", "done", "raised"}
Succeeded == {s \in DOMAIN thread.future : thread.future[s].exc = NoExc}
\* the items of source s in results, in the order they stand there
ResultsOf(s) ==
    SelectSeq(thread.main.results, LAMBDA item : item.source = s)

\* C15: once get_feeds has returned (and so while the articles are saved and
\* clustered) every submitted fetch has finished; results holds, for each
\* source whose fetch returned, exactly its items and nothing else, whatever
\* the order the fetches ran and finished in; each source whose fetch raised
\* was logged and contributed nothing.  No article is saved and no
\* clustering runs before get_feeds has returned.
C15_FeedsDrainedBeforeClustering ==
    /\ FeedsReturned =>
           /\ DOMAIN thread.future = 1..thread.main.sources
           /\ \A s \in DOMAIN thread.future :
                  thread.future[s].state = "finished"
           /\ \A s \in Succeeded : ResultsOf(s) = FeedItems(s)
           /\ \A s \in DOMAIN thread.future \ Succeeded : ResultsOf(s) = <<>>
           /\ \A k \in DOMAIN thread.main.results :
                  thread.main.results[k].source \in Succeeded
           /\ thread.main.logged = DOMAIN thread.future \ Succeeded
    /\ ~FeedsReturned => (article = <<>> /\ call = NoCall)
    /\ thread.main.pc \in {"cluster", "done", "raised"} =>
           Len(article) = Len(thread.main.results)

\* three sources on a pool of two threads: one fetch raised, and the two that
\* returned were collected out of source order; the items are saved
C15_Witness ==
    /\ thread.main.pc = "cluster"
    /\ thread.main.sources = 3 /\ thread.main.workers = 2
    /\ Cardinality(Succeeded) = 2
    /\ thread.main.logged # {}
    /\ \E j, k \in DOMAIN thread.main.consumed :
           j < k /\ thread.main.consumed[j] > thread.main.consumed[k]
    /\ Len(article) = Len(thread.main.results)
    /\ Len(article) > 0

-----------------------------------------------------------------------------
(* A claim about the assignments cluster() leaves, under Spec *)

Assigned == {a \in DOMAIN article : article[a].issue_id # 0}
StepsOf(steps) == {steps[k] : k \in DOMAIN steps}

\* C16: in every state every article with a non-zero issue id names an issue
\* that has its row and an embedding row; and a cluster() call that wrote
\* the assignment wrote it last, after the centroid update and issue update
\* (merge) or after the issue row and its embedding (new issue).  A call
\* that raised part-way wrote no assignment.
C16_AssignedIssueHasEmbedding ==
    /\ \A a \in Assigned :
           /\ article[a].issue_id \in DOMAIN issue
           /\ RowsOf(issue_embedding, article[a].issue_id) # {}
    /\ ClusterCalled =>
           /\ "article.update_issue_id" \in StepsOf(call.steps) =>
                  call.steps \in {MergeSteps, CreateSteps}
           /\ call.exc # NoExc =>
                  /\ "article.update_issue_id" \notin StepsOf(call.steps)
                  /\ article = call.pre.article

\* one article is assigned to an issue with its centroid; the call for the
\* other raised after it had written an issue row, and left it unassigned
C16_Witness ==
    /\ ClusterCalled /\ call.exc = "AttributeError"
    /\ call.steps = <<"issue.create">>
    /\ article[call.article_id].issue_id = 0
    /\ \E i \in DOMAIN issue : RowsOf(issue_embedding, i) = {}
    /\ \E a \in Assigned :
           RowsOf(issue_embedding, article[a].issue_id) # {}

=============================================================================
